---- MODULE Spec2Model ----
(***************************************************************************)
(* Model of the FDA TPLC scraper: scrape_fda_website (one run of the       *)
(* pipeline against a nondeterministic target site) and the helpers of     *)
(* _extract_problem_data (count parsing, MAUDE link rewriting).            *)
(*                                                                         *)
(* Python strings are sequences of one-character tokens; None is the       *)
(* record None and a present value v is Some(v), so that None is never     *)
(* confused with a value of the type.                                      *)
(***************************************************************************)
EXTENDS Integers, Sequences, FiniteSets, TLC

(* ------------------------------ bounds --------------------------------- *)
MaxPages == 2          \* result pages of the target site
MaxCountLen == 2       \* characters in a count cell
MaxLinkLen == 5        \* characters in a row link
MaxRows == 3           \* data rows under one problem header
NumInvocations == 2    \* concurrent calls of scrape_fda_website

(* ------------------------------ options -------------------------------- *)
None == [tag |-> "None"]
Some(v) == [tag |-> "Some", v |-> v]

RECURSIVE SeqsUpTo(_, _)
SeqsUpTo(S, n) ==
    IF n = 0 THEN {<<>>}
    ELSE LET shorter == SeqsUpTo(S, n - 1)
         IN shorter \cup {Append(s, c) : s \in {t \in shorter : Len(t) = n - 1}, c \in S}

(* --------------------------- str operations ---------------------------- *)
\* Characters for which int() accepts the text (Unicode category Nd).
DecimalChars == {"0", "1", "2"}
\* U+00B2 SUPERSCRIPT TWO: str.isdigit() is True, int() raises ValueError.
DigitOnlyChars == {"SUP2"}
WhitespaceChars == {" "}

DigitValue(c) == CASE c = "0" -> 0 [] c = "1" -> 1 [] c = "2" -> 2

RECURSIVE LStripSet(_, _)
\* str.lstrip(chars): drops every leading character that is in the set chars.
LStripSet(s, chars) ==
    IF s # <<>> /\ Head(s) \in chars THEN LStripSet(Tail(s), chars) ELSE s

RECURSIVE RStripSet(_, _)
RStripSet(s, chars) ==
    IF s # <<>> /\ s[Len(s)] \in chars
    THEN RStripSet(SubSeq(s, 1, Len(s) - 1), chars) ELSE s

\* str.strip() with no argument: whitespace off both ends.
Strip(s) == RStripSet(LStripSet(s, WhitespaceChars), WhitespaceChars)

\* str.replace(",", "")
RemoveCommas(s) == SelectSeq(s, LAMBDA c : c # ",")

\* str.isdigit(): non-empty and every character is a digit.
IsDigit(s) == s # <<>> /\ \A k \in 1..Len(s) : s[k] \in DecimalChars \cup DigitOnlyChars

\* str.startswith(prefix)
StartsWith(s, prefix) ==
    Len(s) >= Len(prefix) /\ SubSeq(s, 1, Len(prefix)) = prefix

\* needle in haystack
Contains(haystack, needle) ==
    \E k \in 0..(Len(haystack) - Len(needle)) :
        SubSeq(haystack, k + 1, k + Len(needle)) = needle

RECURSIVE IntValue(_)
IntValue(s) ==
    IF s = <<>> THEN 0
    ELSE 10 * IntValue(SubSeq(s, 1, Len(s) - 1)) + DigitValue(s[Len(s)])

\* int(text) on a text for which isdigit() held: ValueError unless every
\* character is a decimal digit.
IntOf(s) ==
    IF \A k \in 1..Len(s) : s[k] \in DecimalChars
    THEN [raised |-> FALSE, value |-> IntValue(s)]
    ELSE [raised |-> TRUE, value |-> 0]

\* count_text = cell.inner_text().strip().replace(",", "")
\* count = int(count_text) if count_text.isdigit() else None
ParseCount(cell) ==
    LET text == RemoveCommas(Strip(cell))
    IN IF IsDigit(text)
       THEN LET r == IntOf(text)
            IN IF r.raised THEN [raised |-> TRUE, count |-> None]
               ELSE [raised |-> FALSE, count |-> Some(r.value)]
       ELSE [raised |-> FALSE, count |-> None]

MaudeBase == <<"https://www.accessdata.fda.gov/scripts/cdrh/cfdocs/">>
ParentPrefix == <<".", ".", "/">>

\* if maude_link and maude_link.startswith("../"):
\*     maude_link = BASE + maude_link.lstrip("../")
RewriteMaudeLink(maude_link) ==
    IF maude_link # None /\ maude_link.v # <<>> /\ StartsWith(maude_link.v, ParentPrefix)
    THEN Some(MaudeBase \o LStripSet(maude_link.v, {".", "/"}))
    ELSE maude_link

(* ----------------------- _extract_problem_data ------------------------- *)
\* A data row is [cols, anchor]: cols is the sequence of the inner texts of
\* its td cells, anchor is None when the first cell holds no <a>, otherwise
\* Some([text, href]) with href None when the <a> has no href attribute.

\* The record appended for one row with at least 3 cells (lines 24-51).
ProblemOfRow(row) ==
    LET hasLink == row.anchor # None
        problem_name == IF hasLink THEN Strip(row.anchor.v.text) ELSE Strip(row.cols[1])
        maude_link == IF hasLink THEN row.anchor.v.href ELSE None
        mdr == ParseCount(row.cols[2])
        event == ParseCount(row.cols[3])
    IN [raised |-> mdr.raised \/ event.raised,
        record |-> [problem_name |-> problem_name,
                    mdr_count |-> mdr.count,
                    event_count |-> event.count,
                    maude_link |-> RewriteMaudeLink(maude_link)]]

RECURSIVE ExtractRowsStopAtShort(_, _)
\* The loop with break where the code falls through to the next row.
ExtractRowsStopAtShort(problems, rows) ==
    IF rows = <<>> THEN [raised |-> FALSE, problems |-> problems]
    ELSE LET row == Head(rows)
         IN IF Len(row.cols) >= 3
            THEN LET r == ProblemOfRow(row)
                 IN IF r.raised THEN [raised |-> TRUE, problems |-> problems]
                    ELSE ExtractRowsStopAtShort(Append(problems, r.record), Tail(rows))
            ELSE [raised |-> FALSE, problems |-> problems]

RECURSIVE ExtractRows(_, _)
\* The for loop over rows: problems accumulated so far, rows still to read.
ExtractRows(problems, rows) ==
    IF rows = <<>> THEN [raised |-> FALSE, problems |-> problems]
    ELSE LET row == Head(rows)
         IN IF Len(row.cols) >= 3
            THEN LET r == ProblemOfRow(row)
                 IN IF r.raised THEN [raised |-> TRUE, problems |-> problems]
                    ELSE ExtractRows(Append(problems, r.record), Tail(rows))
            ELSE ExtractRows(problems, Tail(rows))

\* _extract_problem_data(page, header_text): table is the sequence of the
\* sibling rows after the header row, <<>> when the header is not on the page.
ExtractProblemData(table) ==
    IF Len(table) = 0 THEN [raised |-> FALSE, problems |-> <<>>]
    ELSE ExtractRows(<<>>, table)

(* ------------------------- the target site ----------------------------- *)
\* Texts of #eir-results-number; " results" is the rest of the text.
IndicatorTexts ==
    {<<"0", " results">>, <<"1", " results">>, <<"1", "0", " results">>,
     <<"2", "0", " results">>, <<"1", "0", "0", " results">>}
ZeroResults == <<"0", " results">>

\* The hrefs one result page can list (those matched by
\* a[href*='tplc.cfm?id='] in the results table), in on-page order.
PageHrefs ==
    {<<>>, <<"tplc.cfm?id=1">>, <<"tplc.cfm?id=2", "tplc.cfm?id=1">>,
     <<"tplc.cfm?id=2", "tplc.cfm?id=2">>}
base_url == "https://www.accessdata.fda.gov/scripts/cdrh/cfdocs/cfTPLC/"
\* full_link = base_url + href, kept as the pair of its two parts
FullLink(href) == <<base_url, href>>

GoodRow ==
    [cols |-> << <<"A">>, <<"1", ",", "2">>, <<" ", "2">> >>,
     anchor |-> Some([text |-> <<"A", " ">>, href |-> Some(<<".", ".", "/", "m">>)])]
PlainRow ==
    [cols |-> << <<"B">>, <<"n">>, <<"0">> >>, anchor |-> None]
ShortRow ==
    [cols |-> << <<"C">>, <<"1">> >>, anchor |-> None]
BadRow ==
    [cols |-> << <<"D">>, <<"SUP2">>, <<"1">> >>, anchor |-> None]
WideRow ==
    [cols |-> << <<"E">>, <<"2">>, <<"-">>, <<"x">> >>,
     anchor |-> Some([text |-> <<"E">>, href |-> None])]

\* What a detail page can show: the text next to the "Device" header (None
\* when th + td does not resolve) and the rows under the two problem headers.
DetailPages ==
    {[name |-> Some(<<" ", "S">>), device |-> <<GoodRow>>, patient |-> <<>>],
     [name |-> None, device |-> <<>>, patient |-> <<ShortRow, PlainRow>>],
     [name |-> Some(<<"S">>), device |-> <<ShortRow>>, patient |-> <<>>],
     [name |-> Some(<<"S">>), device |-> <<>>, patient |-> <<>>],
     [name |-> Some(<<"S">>), device |-> <<BadRow>>, patient |-> <<GoodRow>>]}

\* The data rows with at least 3 cells, in source order.
ProblemRowsOf(rows) == SelectSeq(rows, LAMBDA row : Len(row.cols) >= 3)

\* The number of such rows under the two problem headers of a detail page.
FullRowsOn(pg) == Len(ProblemRowsOf(pg.device)) + Len(ProblemRowsOf(pg.patient))

UnknownDeviceName == <<"Unknown Device Name">>
NoResultsMessage == "No results found for the given criteria."

(* ------------------------------ state ---------------------------------- *)
VARIABLES
    pc,             \* position in scrape_fda_website
    product_code,   \* argument: None or Some(code)
    min_year,       \* argument: None or Some(year)
    numPages,       \* result pages the site serves for the query
    browsers,       \* browser id -> "none" | "open" | "closed"
    browser,        \* the browser the local name `browser` is bound to (0: unbound)
    filled,         \* device name typed into input[name=devicename]
    codeFilled,     \* input[name=productcode] filled
    yearSelected,   \* select[name=min_report_year] changed
    searchClicks,   \* clicks on input[name=search]
    indicator,      \* #eir-results-number after the search: None or Some(text)
    curPage,        \* result page the browser shows (0 before the search)
    all_links,      \* accumulated detail links
    listed,         \* history: the hrefs the result pages listed, as harvested
    pagesHarvested, \* result pages whose links were read
    nextClicks,     \* clicks on a[title=Next]
    missedPages,    \* result pages on which the results table was not found
    i,              \* index of the detail link being scraped
    visited,        \* detail links navigated to, in order
    seen,           \* history: per page scraped, its number of rows with >= 3 cells
    scraped_data,   \* records appended so far
    data_src,       \* for each record of scraped_data, the index of its link
    result,         \* returned envelope
    exc,            \* exception propagating out of the run
    logged,         \* logging.error called by the input-timeout handler
    mdr_text,       \* inner text of the second cell of the row being read
    event_text,     \* inner text of the third cell of the row being read
    mdr_count,      \* parsed MDR count
    event_count,    \* parsed event count
    href_in,        \* href attribute read from the row's <a>
    maude_link,     \* the link stored in the record
    table,          \* the data rows located under the header
    returned_problems, \* the list _extract_problem_data returned
    fpc,            \* position in _extract_problem_data
    cpc,            \* concurrent calls: position of each call
    pool,           \* every browser launched: [by, state], in launch order
    pages,          \* every page created: [by, browser], in creation order
    cbrowser,       \* the name `browser` of each call: index into pool, 0 unbound
    cpage,          \* the name `page` of each call: index into pages, 0 unbound
    clinks,         \* the list all_links of each call, items tagged by producer
    cdata,          \* the list scraped_data of each call, items tagged by producer
    creturned,      \* what each call returned
    foreign         \* history: a call used a browser, page or item of another call

runVars == <<pc, product_code, min_year, numPages, browsers, browser, filled,
             codeFilled, yearSelected, searchClicks, indicator, curPage,
             all_links, listed, pagesHarvested, nextClicks, missedPages, i,
             visited, seen, scraped_data, data_src, result, exc, logged>>
tblVars == <<table, returned_problems>>
fnVars == <<mdr_text, event_text, mdr_count, event_count, href_in, maude_link,
            tblVars, fpc>>
concVars == <<cpc, pool, pages, cbrowser, cpage, clinks, cdata, creturned, foreign>>
otherVars == <<fnVars, concVars>>
vars == <<runVars, fnVars, concVars>>

NoResult == [status |-> "none", message |-> None, data |-> <<>>]

FnIdle ==
    /\ mdr_text = <<>> /\ event_text = <<>>
    /\ mdr_count = None /\ event_count = None
    /\ href_in = None /\ maude_link = None
    /\ table = <<>> /\ returned_problems = <<>>
    /\ fpc = "idle"

RunState(start) ==
    /\ pc = start
    /\ browsers = [b \in {1, 2} |-> "none"]
    /\ browser = 0
    /\ filled = FALSE /\ codeFilled = FALSE /\ yearSelected = FALSE
    /\ searchClicks = 0
    /\ indicator = None
    /\ curPage = 0
    /\ all_links = <<>> /\ listed = <<>>
    /\ pagesHarvested = 0 /\ nextClicks = 0 /\ missedPages = {}
    /\ i = 0 /\ visited = <<>> /\ seen = <<>> /\ scraped_data = <<>> /\ data_src = <<>>
    /\ result = NoResult
    /\ exc = "none"
    /\ logged = FALSE

Invocations == 1..NumInvocations

\* No concurrent call in progress.
ConcIdle ==
    /\ cpc = [n \in Invocations |-> "idle"]
    /\ pool = <<>> /\ pages = <<>>
    /\ cbrowser = [n \in Invocations |-> 0]
    /\ cpage = [n \in Invocations |-> 0]
    /\ clinks = [n \in Invocations |-> <<>>]
    /\ cdata = [n \in Invocations |-> <<>>]
    /\ creturned = [n \in Invocations |-> <<>>]
    /\ foreign = FALSE

RunInit ==
    /\ RunState("launch1")
    /\ product_code \in {None, Some("EID")}
    /\ min_year \in {None, Some(2020), Some(2021)}
    /\ numPages \in 1..MaxPages

\* No run in progress: the state the helper specifications keep fixed.
RunIdle ==
    /\ RunState("idle")
    /\ product_code = None /\ min_year = Some(2020) /\ numPages = 1
    /\ ConcIdle

Init == RunInit /\ FnIdle /\ ConcIdle

argVars == <<product_code, min_year, numPages>>
brVars == <<browsers, browser>>
formVars == <<filled, codeFilled, yearSelected, searchClicks, indicator>>
walkVars == <<curPage, all_links, listed, pagesHarvested, nextClicks, missedPages>>
detailVars == <<i, visited, seen, scraped_data, data_src>>
outVars == <<result, exc, logged>>

(* ----------------------- scrape_fda_website ---------------------------- *)
\* Raising inside the try block: control goes to the finally clause.
RaiseInTry(kind) ==
    /\ exc' = kind
    /\ pc' = "finally"

\* browser = p.chromium.launch(headless=False)
Launch1 ==
    /\ pc = "launch1"
    /\ browsers' = [browsers EXCEPT ![1] = "open"]
    /\ browser' = 1
    /\ pc' = "launch2"
    /\ UNCHANGED <<argVars, formVars, walkVars, detailVars, outVars, otherVars>>

\* browser = p.chromium.launch(headless=True): the name is rebound
Launch2 ==
    /\ pc = "launch2"
    /\ browsers' = [browsers EXCEPT ![2] = "open"]
    /\ browser' = 2
    /\ pc' = "new_page"
    /\ UNCHANGED <<argVars, formVars, walkVars, detailVars, outVars, otherVars>>

\* page = browser.new_page(...); stealth_sync(page)
NewPage ==
    /\ pc = "new_page"
    /\ pc' = "goto"
    /\ UNCHANGED <<argVars, brVars, formVars, walkVars, detailVars, outVars, otherVars>>

\* A launch, new_page or stealth_sync that raises: this is before the try
\* statement, so the finally clause is not run; the with block is left.
SetupFail ==
    /\ pc \in {"launch1", "launch2", "new_page"}
    /\ exc' = "Error"
    /\ pc' = "exit_with"
    /\ UNCHANGED <<argVars, brVars, formVars, walkVars, detailVars, result, logged, otherVars>>

\* the two page.goto calls on the search page
GotoSearch ==
    /\ pc = "goto"
    /\ pc' = "wait_input"
    /\ UNCHANGED <<argVars, brVars, formVars, walkVars, detailVars, outVars, otherVars>>

GotoSearchTimeout ==
    /\ pc = "goto"
    /\ RaiseInTry("TimeoutError")
    /\ UNCHANGED <<argVars, brVars, formVars, walkVars, detailVars, result, logged, otherVars>>

\* wait_for_load_state, device_input.wait_for(visible), device_input.fill
WaitInputAndFill ==
    /\ pc = "wait_input"
    /\ filled' = TRUE
    /\ pc' = "product_code"
    /\ UNCHANGED <<argVars, brVars, codeFilled, yearSelected, searchClicks, indicator,
                   walkVars, detailVars, outVars, otherVars>>

\* The handler without its raise statement: the run goes on to the form.
WaitInputTimeoutSwallowed ==
    /\ pc = "wait_input"
    /\ logged' = TRUE
    /\ pc' = "product_code"
    /\ UNCHANGED <<argVars, brVars, formVars, walkVars, detailVars, result, exc, otherVars>>

\* except TimeoutError: log twice, then raise
WaitInputTimeout ==
    /\ pc = "wait_input"
    /\ logged' = TRUE
    /\ RaiseInTry("TimeoutError")
    /\ UNCHANGED <<argVars, brVars, formVars, walkVars, detailVars, result, otherVars>>

Truthy(code) == code # None /\ code.v # ""

\* if product_code: page.fill("input[name=productcode]", product_code)
FillProductCode ==
    /\ pc = "product_code"
    /\ codeFilled' = Truthy(product_code)
    /\ pc' = "min_year"
    /\ UNCHANGED <<argVars, brVars, filled, yearSelected, searchClicks, indicator,
                   walkVars, detailVars, outVars, otherVars>>

\* if min_year is not None and min_year != 2020: page.select_option(...)
SelectMinYear ==
    /\ pc = "min_year"
    /\ yearSelected' = (min_year # None /\ min_year.v # 2020)
    /\ pc' = "click"
    /\ UNCHANGED <<argVars, brVars, filled, codeFilled, searchClicks, indicator,
                   walkVars, detailVars, outVars, otherVars>>

\* The search control clicked a second time.
ClickSearchTwice ==
    /\ pc = "click"
    /\ searchClicks' = searchClicks + 2
    /\ \E ind \in {None} \cup {Some(t) : t \in IndicatorTexts} : indicator' = ind
    /\ curPage' = 1
    /\ pc' = "check_results"
    /\ UNCHANGED <<argVars, brVars, filled, codeFilled, yearSelected, all_links,
                   listed, pagesHarvested, nextClicks, missedPages, detailVars, outVars,
                   otherVars>>

\* page.click("input[name=search]"); wait_for_load_state; the first result
\* page is shown, with or without #eir-results-number
ClickSearch ==
    /\ pc = "click"
    /\ searchClicks' = searchClicks + 1
    /\ \E ind \in {None} \cup {Some(t) : t \in IndicatorTexts} : indicator' = ind
    /\ curPage' = 1
    /\ pc' = "check_results"
    /\ UNCHANGED <<argVars, brVars, filled, codeFilled, yearSelected, all_links,
                   listed, pagesHarvested, nextClicks, missedPages, detailVars, outVars, otherVars>>

\* an element of the search form that never becomes actionable
SearchError ==
    /\ pc \in {"product_code", "min_year", "click"}
    /\ RaiseInTry("TimeoutError")
    /\ UNCHANGED <<argVars, brVars, formVars, walkVars, detailVars, result, logged, otherVars>>

\* The test with the wrong needle ("no results").
NoResultsFoundWrongText(ind) == ind # None /\ Contains(ind.v, <<"no", " results">>)

\* no_results_element and "0 results" in no_results_element.inner_text()
NoResultsFound(ind) == ind # None /\ Contains(ind.v, ZeroResults)

ReturnNoResults ==
    /\ pc = "check_results"
    /\ NoResultsFound(indicator)
    /\ result' = [status |-> "success", message |-> Some(NoResultsMessage), data |-> <<>>]
    /\ pc' = "finally"
    /\ UNCHANGED <<argVars, brVars, formVars, walkVars, detailVars, exc, logged, otherVars>>

\* all_links = []
StartCollect ==
    /\ pc = "check_results"
    /\ ~NoResultsFound(indicator)
    /\ all_links' = <<>>
    /\ pc' = "locate_table"
    /\ UNCHANGED <<argVars, brVars, formVars, curPage, listed, pagesHarvested,
                   nextClicks, missedPages, detailVars, outVars, otherVars>>

\* results_table_locator = ...; if count() == 0: warn and break
LocateTable ==
    /\ pc = "locate_table"
    /\ \E found \in BOOLEAN :
          IF found
          THEN pc' = "harvest" /\ UNCHANGED missedPages
          ELSE /\ missedPages' = missedPages \cup {curPage}
               /\ pc' = "start_scrape"
    /\ UNCHANGED <<argVars, brVars, formVars, curPage, all_links, listed,
                   pagesHarvested, nextClicks, detailVars, outVars, otherVars>>

\* The links of a page put in front of those of the pages before it.
AppendLinksFront(links, hrefs) == [k \in 1..Len(hrefs) |-> FullLink(hrefs[k])] \o links

\* What the accumulation loop makes of all_links for the hrefs of one page.
AppendLinks(links, hrefs) == links \o [k \in 1..Len(hrefs) |-> FullLink(hrefs[k])]

\* for link_locator in device_link_locators: all_links.append(base_url + href)
Harvest ==
    /\ pc = "harvest"
    /\ \E hrefs \in PageHrefs :
          /\ all_links' = AppendLinks(all_links, hrefs)
          /\ listed' = listed \o hrefs
    /\ pagesHarvested' = pagesHarvested + 1
    /\ pc' = "next"
    /\ UNCHANGED <<argVars, brVars, formVars, curPage, nextClicks, missedPages,
                   detailVars, outVars, otherVars>>

\* page.query_selector("a[title=Next]"): every page but the last has one
HasNext(page) == page < numPages

\* if next_button: click, wait_for_load_state  else: break
FollowNext ==
    /\ pc = "next"
    /\ IF HasNext(curPage)
       THEN /\ nextClicks' = nextClicks + 1
            /\ curPage' = curPage + 1
            /\ pc' = "locate_table"
       ELSE /\ pc' = "start_scrape"
            /\ UNCHANGED <<nextClicks, curPage>>
    /\ UNCHANGED <<argVars, brVars, formVars, all_links, listed, pagesHarvested,
                   missedPages, detailVars, outVars, otherVars>>

\* a locator call or the click on Next that raises during the walk
WalkError ==
    /\ pc \in {"locate_table", "harvest", "next"}
    /\ RaiseInTry("TimeoutError")
    /\ UNCHANGED <<argVars, brVars, formVars, walkVars, detailVars, result, logged, otherVars>>

\* scraped_data = []; for i, link in enumerate(all_links)
StartScrape ==
    /\ pc = "start_scrape"
    /\ scraped_data' = <<>>
    /\ data_src' = <<>>
    /\ i' = 1
    /\ pc' = "detail_goto"
    /\ UNCHANGED <<argVars, brVars, formVars, walkVars, visited, seen, outVars, otherVars>>

\* page.goto(link, timeout=60000)
DetailGoto ==
    /\ pc = "detail_goto"
    /\ i <= Len(all_links)
    /\ visited' = Append(visited, all_links[i])
    /\ pc' = "detail_wait"
    /\ UNCHANGED <<argVars, brVars, formVars, walkVars, i, seen, scraped_data,
                   data_src, outVars, otherVars>>

\* page.wait_for_selector("th:has-text('Device')", visible) succeeds
DetailWait ==
    /\ pc = "detail_wait"
    /\ pc' = "detail_extract"
    /\ UNCHANGED <<argVars, brVars, formVars, walkVars, detailVars, outVars, otherVars>>

\* page.wait_for_selector times out: no except clause encloses the call, so
\* the TimeoutError leaves the for loop and the try block.
DetailWaitTimeout ==
    /\ pc = "detail_wait"
    /\ RaiseInTry("TimeoutError")
    /\ UNCHANGED <<argVars, brVars, formVars, walkVars, detailVars, result, logged, otherVars>>

\* The filter left out: every page appends a record.
KeepDeviceAlways(device_problems, patient_problems) == TRUE

\* if device_problems or patient_problems
KeepDevice(device_problems, patient_problems) ==
    Len(device_problems) > 0 \/ Len(patient_problems) > 0

DeviceNameOnPage(name) == IF name # None THEN Strip(name.v) ELSE UnknownDeviceName

\* read the name, extract both tables, append the record if it has a problem
DetailExtract ==
    /\ pc = "detail_extract"
    /\ \E pg \in DetailPages :
          LET dev == ExtractProblemData(pg.device)
              pat == ExtractProblemData(pg.patient)
          IN IF dev.raised \/ pat.raised
             THEN /\ RaiseInTry("ValueError")
                  /\ UNCHANGED <<i, seen, scraped_data, data_src>>
             ELSE /\ seen' = Append(seen, FullRowsOn(pg))
                  /\ IF KeepDevice(dev.problems, pat.problems)
                     THEN /\ scraped_data' =
                               Append(scraped_data,
                                      [device_name |-> DeviceNameOnPage(pg.name),
                                       device_problems |-> dev.problems,
                                       patient_problems |-> pat.problems])
                          /\ data_src' = Append(data_src, i)
                     ELSE UNCHANGED <<scraped_data, data_src>>
                  /\ i' = i + 1
                  /\ pc' = "detail_goto"
                  /\ UNCHANGED exc
    /\ UNCHANGED <<argVars, brVars, formVars, walkVars, visited, result, logged, otherVars>>

\* page.goto on a detail link that times out
DetailGotoTimeout ==
    /\ pc = "detail_goto"
    /\ i <= Len(all_links)
    /\ RaiseInTry("TimeoutError")
    /\ UNCHANGED <<argVars, brVars, formVars, walkVars, detailVars, result, logged, otherVars>>

\* return {"status": "success", "data": scraped_data}
ReturnSuccess ==
    /\ pc = "detail_goto"
    /\ i > Len(all_links)
    /\ result' = [status |-> "success", message |-> None, data |-> scraped_data]
    /\ pc' = "finally"
    /\ UNCHANGED <<argVars, brVars, formVars, walkVars, detailVars, exc, logged, otherVars>>

\* finally: browser.close()
Finally ==
    /\ pc = "finally"
    /\ browsers' = [browsers EXCEPT ![browser] = "closed"]
    /\ pc' = "exit_with"
    /\ UNCHANGED <<argVars, browser, formVars, walkVars, detailVars, outVars, otherVars>>

\* A driver left running (sync_playwright().start() without stop()).
AfterDriverLeftRunning(state) == state

\* What leaving `with sync_playwright() as p` does to a browser: the driver
\* is stopped, which shuts down every browser it launched.
AfterDriverStop(state) == IF state = "open" THEN "closed" ELSE state

ExitWith ==
    /\ pc = "exit_with"
    /\ browsers' = [b \in DOMAIN browsers |-> AfterDriverStop(browsers[b])]
    /\ pc' = IF exc = "none" THEN "returned" ELSE "raised"
    /\ UNCHANGED <<argVars, browser, formVars, walkVars, detailVars, outVars, otherVars>>

Next ==
    \/ Launch1 \/ Launch2 \/ NewPage \/ SetupFail
    \/ GotoSearch \/ GotoSearchTimeout
    \/ WaitInputAndFill \/ WaitInputTimeout
    \/ FillProductCode \/ SelectMinYear \/ ClickSearch \/ SearchError
    \/ ReturnNoResults \/ StartCollect
    \/ LocateTable \/ Harvest \/ FollowNext \/ WalkError
    \/ StartScrape \/ DetailGoto \/ DetailGotoTimeout
    \/ DetailWait \/ DetailWaitTimeout \/ DetailExtract
    \/ ReturnSuccess \/ Finally \/ ExitWith

Spec == Init /\ [][Next]_vars

(* ------------- the count cells of one row (lines 34-40) ---------------- *)
CountChars == {"0", "1", "2", ",", " ", "-", "a", "SUP2"}
CountCells == SeqsUpTo(CountChars, MaxCountLen)

CountInit ==
    /\ RunIdle
    /\ mdr_text \in CountCells /\ event_text \in CountCells
    /\ mdr_count = None /\ event_count = None
    /\ href_in = None /\ maude_link = None
    /\ table = <<>> /\ returned_problems = <<>>
    /\ fpc = "mdr"

\* mdr_count = int(mdr_count_text) if mdr_count_text.isdigit() else None
ParseMdrCount ==
    /\ fpc = "mdr"
    /\ LET r == ParseCount(mdr_text)
       IN IF r.raised
          THEN fpc' = "raised" /\ UNCHANGED mdr_count
          ELSE fpc' = "event" /\ mdr_count' = r.count
    /\ UNCHANGED <<runVars, mdr_text, event_text, event_count, href_in, maude_link, tblVars,
                   concVars>>

\* event_count = int(event_count_text) if event_count_text.isdigit() else None
ParseEventCount ==
    /\ fpc = "event"
    /\ LET r == ParseCount(event_text)
       IN IF r.raised
          THEN fpc' = "raised" /\ UNCHANGED event_count
          ELSE fpc' = "done" /\ event_count' = r.count
    /\ UNCHANGED <<runVars, mdr_text, event_text, mdr_count, href_in, maude_link, tblVars,
                   concVars>>

CountNext == ParseMdrCount \/ ParseEventCount

SpecCount == CountInit /\ [][CountNext]_vars

(* ------------- the MAUDE link of one row (lines 28, 42-44) ------------- *)
LinkChars == {".", "/", "m"}

LinkInit ==
    /\ RunIdle
    /\ mdr_text = <<>> /\ event_text = <<>>
    /\ mdr_count = None /\ event_count = None
    /\ href_in \in {None} \cup {Some(t) : t \in SeqsUpTo(LinkChars, MaxLinkLen)}
    /\ maude_link = None
    /\ table = <<>> /\ returned_problems = <<>>
    /\ fpc = "link"

\* maude_link = link_element.get_attribute("href"), then the rewrite
BuildMaudeLink ==
    /\ fpc = "link"
    /\ maude_link' = RewriteMaudeLink(href_in)
    /\ fpc' = "done"
    /\ UNCHANGED <<runVars, mdr_text, event_text, mdr_count, event_count, href_in, tblVars,
                   concVars>>

LinkNext == BuildMaudeLink

SpecLink == LinkInit /\ [][LinkNext]_vars

(* ------------- _extract_problem_data on one table (lines 8-52) -------- *)
TableRows == {GoodRow, PlainRow, ShortRow, BadRow, WideRow}

ExtractInit ==
    /\ RunIdle
    /\ mdr_text = <<>> /\ event_text = <<>>
    /\ mdr_count = None /\ event_count = None
    /\ href_in = None /\ maude_link = None
    /\ table \in SeqsUpTo(TableRows, MaxRows)
    /\ returned_problems = <<>>
    /\ fpc = "extract"

\* problems = _extract_problem_data(page, header_text)
CallExtract ==
    /\ fpc = "extract"
    /\ LET r == ExtractProblemData(table)
       IN IF r.raised
          THEN fpc' = "raised" /\ UNCHANGED returned_problems
          ELSE fpc' = "done" /\ returned_problems' = r.problems
    /\ UNCHANGED <<runVars, mdr_text, event_text, mdr_count, event_count, href_in,
                   maude_link, table, concVars>>

ExtractNext == CallExtract

SpecExtract == ExtractInit /\ [][ExtractNext]_vars

(* ------ concurrent calls of scrape_fda_website (main.py, /scrape) ------ *)
\* scrape_data is a plain def: the gateway runs each request in its own
\* thread, so calls of scrape_fda_website interleave at every browser
\* operation. Each call is followed through the operations that use a
\* browser, a page or one of its lists.

\* The names browser, page, all_links and scraped_data as module-level
\* globals: every call reads and binds the same ones.
SharedFrame(n) == 1

\* The frame holding the names browser, page, all_links and scraped_data of
\* call n: they are locals of scrape_fda_website, one frame per call.
Frame(n) == n

ConcInit ==
    /\ RunState("idle")
    /\ product_code = None /\ min_year = Some(2020) /\ numPages = 1
    /\ FnIdle
    /\ ConcIdle

\* n uses the browser at index b of pool
UsesBrowser(n, b) == b = 0 \/ pool[b].by # n
\* n uses the page at index q of pages
UsesPage(n, q) == q = 0 \/ pages[q].by # n
\* n reads a list holding an item another call put there
ReadsList(n, items) == \E k \in 1..Len(items) : items[k][1] # n

\* data = scrape_fda_website(device_name, product_code, since)
CCall(n) ==
    /\ cpc[n] = "idle"
    /\ cpc' = [cpc EXCEPT ![n] = "launch1"]
    /\ UNCHANGED <<runVars, fnVars, pool, pages, cbrowser, cpage, clinks, cdata,
                   creturned, foreign>>

\* browser = p.chromium.launch(...), both launches: a new browser of the
\* call's own driver p, bound to the name browser
CLaunch(n) ==
    /\ cpc[n] \in {"launch1", "launch2"}
    /\ pool' = Append(pool, [by |-> n, state |-> "open"])
    /\ cbrowser' = [cbrowser EXCEPT ![Frame(n)] = Len(pool) + 1]
    /\ cpc' = [cpc EXCEPT ![n] = IF cpc[n] = "launch1" THEN "launch2" ELSE "new_page"]
    /\ UNCHANGED <<runVars, fnVars, pages, cpage, clinks, cdata, creturned, foreign>>

\* page = browser.new_page(...); stealth_sync(page)
CNewPage(n) ==
    /\ cpc[n] = "new_page"
    /\ LET b == cbrowser[Frame(n)]
       IN /\ pages' = Append(pages, [by |-> n, browser |-> b])
          /\ foreign' = (foreign \/ UsesBrowser(n, b))
    /\ cpage' = [cpage EXCEPT ![Frame(n)] = Len(pages) + 1]
    /\ cpc' = [cpc EXCEPT ![n] = "search"]
    /\ UNCHANGED <<runVars, fnVars, pool, cbrowser, clinks, cdata, creturned>>

\* page.goto ... page.click(search) ...; all_links = []
CSearch(n) ==
    /\ cpc[n] = "search"
    /\ foreign' = (foreign \/ UsesPage(n, cpage[Frame(n)]))
    /\ clinks' = [clinks EXCEPT ![Frame(n)] = <<>>]
    /\ cpc' = [cpc EXCEPT ![n] = "harvest"]
    /\ UNCHANGED <<runVars, fnVars, pool, pages, cbrowser, cpage, cdata, creturned>>

\* What the result page of a concurrent call lists.
ConcHrefs == {<<>>, <<"tplc.cfm?id=2", "tplc.cfm?id=1">>}

\* one result page read from page: all_links.append(full_link) for each
\* link; scraped_data = []
CHarvest(n) ==
    /\ cpc[n] = "harvest"
    /\ foreign' = (foreign \/ UsesPage(n, cpage[Frame(n)]))
    /\ \E hrefs \in ConcHrefs :
          clinks' = [clinks EXCEPT ![Frame(n)] =
                        @ \o [k \in 1..Len(hrefs) |-> <<n, FullLink(hrefs[k])>>]]
    /\ cdata' = [cdata EXCEPT ![Frame(n)] = <<>>]
    /\ cpc' = [cpc EXCEPT ![n] = "scrape"]
    /\ UNCHANGED <<runVars, fnVars, pool, pages, cbrowser, cpage, creturned>>

\* for link in all_links: page.goto(link), extract, scraped_data.append(...)
CScrape(n) ==
    /\ cpc[n] = "scrape"
    /\ LET links == clinks[Frame(n)]
       IN /\ foreign' = (foreign \/ UsesPage(n, cpage[Frame(n)]) \/ ReadsList(n, links))
          /\ cdata' = [cdata EXCEPT ![Frame(n)] =
                          @ \o [k \in 1..Len(links) |-> <<n, links[k][2]>>]]
    /\ cpc' = [cpc EXCEPT ![n] = "return"]
    /\ UNCHANGED <<runVars, fnVars, pool, pages, cbrowser, cpage, clinks, creturned>>

\* return {"status": "success", "data": scraped_data}
CReturn(n) ==
    /\ cpc[n] = "return"
    /\ creturned' = [creturned EXCEPT ![n] = cdata[Frame(n)]]
    /\ foreign' = (foreign \/ ReadsList(n, cdata[Frame(n)]))
    /\ cpc' = [cpc EXCEPT ![n] = "finally"]
    /\ UNCHANGED <<runVars, fnVars, pool, pages, cbrowser, cpage, clinks, cdata>>

\* an operation inside the try block that raises
CRaise(n) ==
    /\ cpc[n] \in {"search", "harvest", "scrape"}
    /\ cpc' = [cpc EXCEPT ![n] = "finally"]
    /\ UNCHANGED <<runVars, fnVars, pool, pages, cbrowser, cpage, clinks, cdata,
                   creturned, foreign>>

\* finally: browser.close()
CFinally(n) ==
    /\ cpc[n] = "finally"
    /\ LET b == cbrowser[Frame(n)]
       IN /\ foreign' = (foreign \/ UsesBrowser(n, b))
          /\ pool' = IF b = 0 THEN pool ELSE [pool EXCEPT ![b].state = "closed"]
    /\ cpc' = [cpc EXCEPT ![n] = "exit_with"]
    /\ UNCHANGED <<runVars, fnVars, pages, cbrowser, cpage, clinks, cdata, creturned>>

\* leaving the with block: the call's own driver p stops and shuts down the
\* browsers that driver launched
CExitWith(n) ==
    /\ cpc[n] = "exit_with"
    /\ pool' = [b \in 1..Len(pool) |->
                   IF pool[b].by = n THEN [pool[b] EXCEPT !.state = AfterDriverStop(@)]
                   ELSE pool[b]]
    /\ cpc' = [cpc EXCEPT ![n] = "done"]
    /\ UNCHANGED <<runVars, fnVars, pages, cbrowser, cpage, clinks, cdata, creturned,
                   foreign>>

ConcNext ==
    \E n \in Invocations :
        \/ CCall(n) \/ CLaunch(n) \/ CNewPage(n) \/ CSearch(n) \/ CHarvest(n)
        \/ CScrape(n) \/ CReturn(n) \/ CRaise(n) \/ CFinally(n) \/ CExitWith(n)

SpecConc == ConcInit /\ [][ConcNext]_vars

(* ============================== claims ================================= *)
NoDuplicates(seq) ==
    \A a, b \in 1..Len(seq) : a # b => seq[a] # seq[b]

\* C1: the accumulated list of detail links holds no URL twice, so no detail
\* page is navigated to twice and no link contributes two records.
C1_LinksDeduplicated ==
    /\ NoDuplicates(all_links)
    /\ NoDuplicates(visited)
    /\ NoDuplicates([k \in 1..Len(data_src) |-> all_links[data_src[k]]])

\* C2: a timeout of the wait for the 'Device' marker skips that page only:
\* the loop moves to the next link and no exception leaves the run.
C2_MarkerTimeoutSkipsPage ==
    [][(pc = "detail_wait" /\ pc' # "detail_extract")
          => (pc' = "detail_goto" /\ i' = i + 1 /\ exc' = "none")]_vars

C4_ZeroResultsShortCircuit ==
    (indicator = Some(ZeroResults) /\ pc # "check_results")
        => /\ result.status = "success"
           /\ result.message # None
           /\ result.data = <<>>
           /\ pagesHarvested = 0 /\ missedPages = {} /\ all_links = <<>>
           /\ visited = <<>>
           /\ exc = "none"
           /\ pc \in {"finally", "exit_with", "returned"}

C4_Witness ==
    pc = "returned" /\ indicator = Some(ZeroResults) /\ result.status = "success"

HasProblem(rec) == Len(rec.device_problems) > 0 \/ Len(rec.patient_problems) > 0

\* C5: every record appended, and every record of the returned data, has a
\* device problem or a patient problem: a page whose two extractions are
\* both empty is in neither.
C5_RecordsHaveProblems ==
    /\ \A k \in 1..Len(scraped_data) : HasProblem(scraped_data[k])
    /\ \A k \in 1..Len(result.data) : HasProblem(result.data[k])

\* a returned run in which a page was scraped without error and left out
C5_Witness ==
    /\ pc = "returned" /\ result.status = "success"
    /\ Len(result.data) > 0
    /\ Len(result.data) < Len(visited)

\* C6: when the link-collection loop has ended, links were harvested from
\* each of the numPages result pages and Next was clicked numPages - 1 times.
C6_WalkCoversAllPages ==
    pc = "start_scrape" => (pagesHarvested = numPages /\ nextClicks = numPages - 1)

\* C7: a result page whose results table is not found contributes no link
\* and the walk goes on to look for that page's Next control.
C7_MissingTableContinues ==
    [][(pc = "locate_table" /\ missedPages' # missedPages)
          => (pc' = "next" /\ all_links' = all_links)]_vars

\* C8: after the handler of the device-name input timeout has run, the
\* TimeoutError propagates, no envelope is returned, the search was never
\* clicked and no result page or detail page was visited.
C8_InputTimeoutAborts ==
    logged => /\ exc = "TimeoutError"
              /\ result = NoResult
              /\ ~filled /\ searchClicks = 0
              /\ curPage = 0 /\ pagesHarvested = 0 /\ missedPages = {}
              /\ visited = <<>>
              /\ pc \in {"finally", "exit_with", "raised"}

C8_Witness == logged /\ pc = "raised" /\ exc = "TimeoutError"

\* A count text is numeric when, stripped and without commas, it is a
\* non-empty run of decimal digits.
NumericText(cellText) ==
    LET t == RemoveCommas(Strip(cellText))
    IN t # <<>> /\ \A k \in 1..Len(t) : t[k] \in DecimalChars

IntOrNull(count) == count = None \/ count.v \in Nat

\* C9: for every text of a count cell the parse never fails, each parsed
\* count is a non-negative integer or null, and a non-numeric text gives null.
C9_CountsIntOrNull ==
    /\ fpc # "raised"
    /\ IntOrNull(mdr_count) /\ IntOrNull(event_count)
    /\ (fpc \in {"event", "done"} /\ ~NumericText(mdr_text)) => mdr_count = None
    /\ (fpc = "done" /\ ~NumericText(event_text)) => event_count = None

\* C10: a link "../" + R is stored as the base path followed by R, exactly;
\* any other link (and a missing one) is stored unchanged.
C10_OnePrefixRemoved ==
    fpc = "done"
        => IF href_in # None /\ StartsWith(href_in.v, ParentPrefix)
           THEN maude_link = Some(MaudeBase \o SubSeq(href_in.v, 4, Len(href_in.v)))
           ELSE maude_link = href_in

\* C11: the list returned for a table has one record per data row with at
\* least 3 cells, in source row order, and nothing else; rows with fewer
\* cells add nothing and do not end the extraction.
C11_OneRecordPerFullRow ==
    fpc = "done"
        => LET full == ProblemRowsOf(table)
           IN /\ Len(returned_problems) = Len(full)
              /\ \A k \in 1..Len(full) :
                    returned_problems[k] = ProblemOfRow(full[k]).record

\* a short row between two full rows: both full rows are returned, in order
C11_Witness ==
    /\ fpc = "done"
    /\ table = <<PlainRow, ShortRow, GoodRow>>
    /\ Len(returned_problems) = 2
    /\ returned_problems[1].problem_name = <<"B">>
    /\ returned_problems[2].problem_name = <<"A">>

NormalReturn == result.status = "success" /\ result.message = None

\* C12: detail pages are navigated to in the order the links were listed
\* (page by page, on-page order within a page), one visit per harvested
\* link, and the records are, in that order, those of the visited pages
\* that have at least one problem row; the returned data is that sequence.
C12_VisitAndDataInHarvestOrder ==
    /\ Len(all_links) = Len(listed)
    /\ \A k \in 1..Len(listed) : all_links[k] = FullLink(listed[k])
    /\ Len(visited) <= Len(all_links)
    /\ \A k \in 1..Len(visited) : visited[k] = all_links[k]
    /\ Len(scraped_data) = Len(data_src)
    /\ \A a, b \in 1..Len(data_src) : a < b => data_src[a] < data_src[b]
    /\ {data_src[k] : k \in 1..Len(data_src)} = {k \in 1..Len(seen) : seen[k] > 0}
    /\ NormalReturn => (visited = all_links /\ Len(seen) = Len(all_links)
                        /\ result.data = scraped_data)

\* three links over two result pages, the middle page without problems
C12_Witness ==
    /\ pc = "returned" /\ NormalReturn
    /\ listed = <<"tplc.cfm?id=1", "tplc.cfm?id=2", "tplc.cfm?id=1">>
    /\ Len(visited) = 3
    /\ data_src = <<1, 3>>
    /\ Len(result.data) = 2

\* C13: under every interleaving of concurrent calls, each call uses only
\* the browsers and pages it created itself, its lists hold only the links
\* and records it produced itself, and it returns only its own records.
C13_CallsAreIsolated ==
    /\ ~foreign
    /\ \A n \in Invocations :
          /\ cbrowser[n] # 0 => pool[cbrowser[n]].by = n
          /\ cpage[n] # 0 => (pages[cpage[n]].by = n /\ pool[pages[cpage[n]].browser].by = n)
          /\ \A k \in 1..Len(clinks[n]) : clinks[n][k][1] = n
          /\ \A k \in 1..Len(cdata[n]) : cdata[n][k][1] = n
          /\ \A k \in 1..Len(creturned[n]) : creturned[n][k][1] = n
    /\ \A b \in 1..Len(pool) :
          pool[b].state = "closed" => cpc[pool[b].by] \in {"exit_with", "done"}

\* call 2 launched between the two launches of call 1; both have returned
\* their own records and every browser is closed
C13_Witness ==
    /\ cpc[1] = "done" /\ cpc[2] = "done"
    /\ Len(pool) >= 4 /\ pool[1].by = 1 /\ pool[2].by = 2 /\ pool[3].by = 1
    /\ \A b \in 1..Len(pool) : pool[b].state = "closed"
    /\ Len(creturned[1]) > 0 /\ Len(creturned[2]) > 0

\* C14: the "No results found" envelope is returned only when the indicator
\* is present and reports zero results; with the indicator absent or
\* reporting a positive count the run goes on to harvest links.
C14_ShortCircuitOnlyOnZero ==
    (searchClicks > 0 /\ indicator # Some(ZeroResults))
        => /\ result.message = None
           /\ result.status = "success" => NormalReturn

WalkStates == {"locate_table", "harvest", "next"}
DetailStates == {"start_scrape", "detail_goto", "detail_wait", "detail_extract"}
WalkStarted ==
    pc \in WalkStates \/ pagesHarvested > 0 \/ missedPages # {} \/ all_links # <<>>

\* the order of the steps, common to C15 as stated and as amended: the click
\* comes after the fill and the overrides, harvesting after the click, and
\* detail navigation after the end of the pagination loop
StepsInOrder ==
    /\ searchClicks > 0
          => /\ filled
             /\ Truthy(product_code) => codeFilled
             /\ (min_year # None /\ min_year.v # 2020) => yearSelected
    /\ pc = "click" => filled
    /\ WalkStarted => searchClicks > 0
    /\ visited # <<>> => (pc \notin WalkStates /\ pc # "check_results" /\ searchClicks > 0)

\* C15 as stated: the steps are in order and every run that has ended has
\* clicked the search control exactly once.
C15_ExactlyOneClickInEveryRun ==
    /\ StepsInOrder
    /\ pc \in {"returned", "raised"} => searchClicks = 1

\* C15 as amended: the steps are in order, the search control is clicked at
\* most once, and exactly once in every run that got past the search form.
C15_StepsInOrderOneClick ==
    /\ StepsInOrder
    /\ searchClicks <= 1
    /\ (pc \in {"check_results"} \cup WalkStates \cup DetailStates
          \/ result.status = "success") => searchClicks = 1

\* a returned run with both overrides applied, one click and a detail visit
C15_Witness ==
    /\ pc = "returned" /\ NormalReturn
    /\ filled /\ codeFilled /\ yearSelected
    /\ searchClicks = 1
    /\ pagesHarvested = 2 /\ Len(visited) > 0

====
